---- MODULE Spec2Model ----
(***************************************************************************)
(* Model of src/src/chunk_type.rs: the 4-byte PNG chunk type (ChunkType).   *)
(*                                                                         *)
(* A &str is modelled as the sequence of its Unicode scalar values; its     *)
(* bytes are the UTF-8 encoding of that sequence, so s.len() is a byte      *)
(* count.  A [u8; 4] is a sequence of four numbers in 0..255.               *)
(***************************************************************************)
EXTENDS Integers, Sequences, FiniteSets

VARIABLES
    input,    \* the argument handed to the constructor
    result,   \* the Result returned by the constructor
    chunks,   \* ChunkType.chunks of the constructed tag, <<>> while there is none
    ret,      \* the last query made on the tag and what it returned
    first,    \* the first query made on the tag and what it returned
    calls     \* the number of queries made on the tag, counted up to MaxCalls

vars == <<input, result, chunks, ret, first, calls>>

----------------------------------------------------------------------------
(* Bounds and input domains *)

\* longest input text, in characters
MaxChars == 5

\* queries on the tag are counted up to this number
MaxCalls == 3

\* characters of the input texts: '@' 'Z' '[' '`' 'a', then U+00E9 (2 bytes),
\* U+20AC (3 bytes) and U+1F600 (4 bytes)
Chars == {64, 90, 91, 96, 97, 233, 8364, 128512}

\* byte values of the raw arrays: NUL 'A' 'z' '{', and 0xA9 / 0xC3, which are
\* not ASCII (0xC3 0xA9 is the encoding of U+00E9, either alone is malformed)
ByteVals == {0, 65, 122, 123, 169, 195}

Strings == UNION {[1..n -> Chars] : n \in 0..MaxChars}

ByteArrays == [1..4 -> ByteVals]

None == [op |-> "none", arg |-> <<>>, val |-> <<>>]

----------------------------------------------------------------------------
(* &str: UTF-8 encoding (str::as_bytes, str::len) *)

\* the UTF-8 encoding of one scalar value
encode_utf8(c) ==
    IF c < 128 THEN <<c>>
    ELSE IF c < 2048 THEN <<192 + (c \div 64), 128 + (c % 64)>>
    ELSE IF c < 65536 THEN
        <<224 + (c \div 4096), 128 + ((c \div 64) % 64), 128 + (c % 64)>>
    ELSE <<240 + (c \div 262144), 128 + ((c \div 4096) % 64),
           128 + ((c \div 64) % 64), 128 + (c % 64)>>

RECURSIVE as_bytes(_)
as_bytes(s) ==
    IF s = <<>> THEN <<>> ELSE encode_utf8(Head(s)) \o as_bytes(Tail(s))

\* s.len(): the length of the text in bytes
len(s) == Len(as_bytes(s))

----------------------------------------------------------------------------
(* String::from_utf8_lossy: decoding with U+FFFD for each malformed part *)

safe_get(xs, i) == IF i <= Len(xs) THEN xs[i] ELSE 0

is_cont(x) == x \div 64 = 2

utf8_char_width(b) ==
    IF b < 128 THEN 1
    ELSE IF b \in 194..223 THEN 2
    ELSE IF b \in 224..239 THEN 3
    ELSE IF b \in 240..244 THEN 4
    ELSE 0

second_ok3(b, x) ==
    \/ b = 224 /\ x \in 160..191
    \/ b \in 225..236 /\ x \in 128..191
    \/ b = 237 /\ x \in 128..159
    \/ b \in 238..239 /\ x \in 128..191

second_ok4(b, x) ==
    \/ b = 240 /\ x \in 144..191
    \/ b \in 241..243 /\ x \in 128..191
    \/ b = 244 /\ x \in 128..143

\* the scalar value decoded at position i and the number of bytes consumed;
\* 65533 (U+FFFD) stands for a malformed part
decode_at(xs, i) ==
    LET b  == xs[i]
        w  == utf8_char_width(b)
        x1 == safe_get(xs, i + 1)
        x2 == safe_get(xs, i + 2)
        x3 == safe_get(xs, i + 3)
    IN  IF w = 1 THEN [c |-> b, n |-> 1]
        ELSE IF w = 2 THEN
            IF is_cont(x1)
            THEN [c |-> (b - 192) * 64 + (x1 - 128), n |-> 2]
            ELSE [c |-> 65533, n |-> 1]
        ELSE IF w = 3 THEN
            IF ~second_ok3(b, x1) THEN [c |-> 65533, n |-> 1]
            ELSE IF ~is_cont(x2) THEN [c |-> 65533, n |-> 2]
            ELSE [c |-> (b - 224) * 4096 + (x1 - 128) * 64 + (x2 - 128), n |-> 3]
        ELSE IF w = 4 THEN
            IF ~second_ok4(b, x1) THEN [c |-> 65533, n |-> 1]
            ELSE IF ~is_cont(x2) THEN [c |-> 65533, n |-> 2]
            ELSE IF ~is_cont(x3) THEN [c |-> 65533, n |-> 3]
            ELSE [c |-> (b - 240) * 262144 + (x1 - 128) * 4096
                        + (x2 - 128) * 64 + (x3 - 128), n |-> 4]
        ELSE [c |-> 65533, n |-> 1]

RECURSIVE lossy_from(_, _)
lossy_from(xs, i) ==
    IF i > Len(xs) THEN <<>>
    ELSE LET d == decode_at(xs, i) IN <<d.c>> \o lossy_from(xs, i + d.n)

from_utf8_lossy(xs) == lossy_from(xs, 1)

----------------------------------------------------------------------------
(* ChunkType *)

Ok(c) == [tag |-> "Ok", kind |-> "", val |-> 0, chunks |-> c]

Err(k, v) == [tag |-> "Err", kind |-> k, val |-> v, chunks |-> <<>>]

\* is_valid_byte written with is_ascii_uppercase
is_valid_byte_uppercase(byte) == byte \in 65..90

\* u8::is_ascii_alphabetic
is_valid_byte(byte) == byte \in 65..90 \/ byte \in 97..122

\* the loop of from_str without the early return: the last byte that is not valid
RECURSIVE last_invalid(_, _)
last_invalid(characters, i) ==
    IF i > Len(characters) THEN -1
    ELSE LET rest == last_invalid(characters, i + 1)
         IN  IF rest # -1 THEN rest
             ELSE IF ~(characters[i] \in 65..90 \/ characters[i] \in 97..122)
             THEN characters[i]
             ELSE -1

\* the loop of from_str: the first byte from position i on that is not valid,
\* -1 when there is none
RECURSIVE first_invalid(_, _)
first_invalid(characters, i) ==
    IF i > Len(characters) THEN -1
    ELSE IF ~is_valid_byte(characters[i]) THEN characters[i]
    ELSE first_invalid(characters, i + 1)

\* <[u8; 4]>::try_from(&[u8])
array_try_from(slice) ==
    IF Len(slice) = 4 THEN Ok(slice) ELSE Err("TryFromSliceError", 0)

\* from_str with the per-byte check placed before the length check
from_str_bytes_first(s) ==
    LET characters == as_bytes(s)
        bad == IF \E i \in 1..Len(characters) :
                      ~(characters[i] \in 65..90 \/ characters[i] \in 97..122)
               THEN characters[CHOOSE i \in 1..Len(characters) :
                      /\ ~(characters[i] \in 65..90 \/ characters[i] \in 97..122)
                      /\ \A j \in 1..(i - 1) :
                            characters[j] \in 65..90 \/ characters[j] \in 97..122]
               ELSE -1
    IN  IF bad # -1 THEN Err("InvalidCharacter", bad)
        ELSE IF Len(characters) # 4 THEN Err("InvalidLength", Len(characters))
        ELSE Ok(characters)

from_str(s) ==
    IF len(s) # 4 THEN Err("InvalidLength", len(s))
    ELSE LET characters == as_bytes(s)
             bad == first_invalid(characters, 1)
         IN  IF bad # -1 THEN Err("InvalidCharacter", bad)
             ELSE array_try_from(characters)

\* try_from with the validation of from_str
try_from_validating(b) ==
    IF \E i \in 1..4 : ~(b[i] \in 65..90 \/ b[i] \in 97..122)
    THEN Err("InvalidCharacter", b[CHOOSE i \in 1..4 : ~(b[i] \in 65..90 \/ b[i] \in 97..122)])
    ELSE Ok(b)

try_from(b) == Ok(b)

\* eq comparing the first three bytes only
eq_first_three(self, other) == \A i \in 1..3 : self[i] = other[i]

eq(self, other) == self = other

bytes(self) == self

\* (x >> 6) & 0x1
bit6(x) == (x \div 64) % 2

\* (x >> 5) & 0x1
bit5(x) == (x \div 32) % 2

is_critical(self) == bit5(self[1]) = 0

\* is_public reading the third byte, as its comment says
is_public_third_byte(self) == (self[3] \div 32) % 2 = 0

is_public(self) == bit5(self[2]) = 0

is_reserved_bit_valid(self) == bit5(self[3]) = 0

is_safe_to_copy(self) == bit5(self[4]) = 1

\* is_valid without the loop over the bytes
is_valid_reserved_only(self) == (self[3] \div 32) % 2 = 0

is_valid(self) ==
    IF \E i \in 1..Len(bytes(self)) : ~is_valid_byte(bytes(self)[i])
    THEN FALSE
    ELSE is_reserved_bit_valid(self)

\* fmt written with String::from_utf8, which rejects malformed bytes
fmt_strict(self) ==
    [ok |-> \A i \in 1..Len(from_utf8_lossy(self)) : from_utf8_lossy(self)[i] # 65533,
     text |-> from_utf8_lossy(self)]

\* Display::fmt, as reached through to_string(): the text written, and
\* whether the write succeeded
fmt(self) == [ok |-> TRUE, text |-> from_utf8_lossy(self)]

----------------------------------------------------------------------------
(* The state machine: one tag is constructed, then queried *)

Init ==
    /\ input = [kind |-> "none", s |-> <<>>]
    /\ result = [tag |-> "none", kind |-> "", val |-> 0, chunks |-> <<>>]
    /\ chunks = <<>>
    /\ ret = None
    /\ first = None
    /\ calls = 0

Constructed == chunks # <<>>

\* ChunkType::from_str(s), for any text s
FromStr ==
    /\ input.kind = "none"
    /\ \E s \in Strings :
        /\ input' = [kind |-> "str", s |-> s]
        /\ result' = from_str(s)
        /\ chunks' = from_str(s).chunks
    /\ UNCHANGED <<ret, first, calls>>

\* ChunkType::try_from(b), for any array b
TryFrom ==
    /\ input.kind = "none"
    /\ \E b \in ByteArrays :
        /\ input' = [kind |-> "bytes", s |-> b]
        /\ result' = try_from(b)
        /\ chunks' = try_from(b).chunks
    /\ UNCHANGED <<ret, first, calls>>

\* a query op(arg) on the tag returns val and leaves the tag alone
Returns(op, arg, val) ==
    /\ ret' = [op |-> op, arg |-> arg, val |-> val]
    /\ first' = IF first.op = "none" THEN ret' ELSE first
    /\ calls' = IF calls < MaxCalls THEN calls + 1 ELSE calls
    /\ UNCHANGED <<input, result>>

Bytes ==
    /\ Constructed
    /\ Returns("bytes", <<>>, bytes(chunks))
    /\ UNCHANGED chunks

\* is_valid that clears the reserved bit of the tag before it answers
IsValidClearing ==
    /\ Constructed
    /\ Returns("is_valid", <<>>, is_valid(chunks))
    /\ chunks' = [chunks EXCEPT ![3] = IF (chunks[3] \div 32) % 2 = 1
                                        THEN chunks[3] - 32 ELSE chunks[3]]

IsValid ==
    /\ Constructed
    /\ Returns("is_valid", <<>>, is_valid(chunks))
    /\ UNCHANGED chunks

IsCritical ==
    /\ Constructed
    /\ Returns("is_critical", <<>>, is_critical(chunks))
    /\ UNCHANGED chunks

IsPublic ==
    /\ Constructed
    /\ Returns("is_public", <<>>, is_public(chunks))
    /\ UNCHANGED chunks

IsReservedBitValid ==
    /\ Constructed
    /\ Returns("is_reserved_bit_valid", <<>>, is_reserved_bit_valid(chunks))
    /\ UNCHANGED chunks

IsSafeToCopy ==
    /\ Constructed
    /\ Returns("is_safe_to_copy", <<>>, is_safe_to_copy(chunks))
    /\ UNCHANGED chunks

ToString ==
    /\ Constructed
    /\ Returns("to_string", <<>>, fmt(chunks))
    /\ UNCHANGED chunks

\* the tags a tag is compared with: itself, the tag with one byte replaced,
\* and the tag with its bytes in reverse order
Replaced(c, i) == [c EXCEPT ![i] = IF c[i] = 65 THEN 97 ELSE 65]

Others(c) ==
    {c} \cup {Replaced(c, i) : i \in 1..4} \cup {[i \in 1..4 |-> c[5 - i]]}

\* self == other, for a tag other built from raw bytes
Eq ==
    /\ Constructed
    /\ \E o \in Others(chunks) :
        Returns("eq", o, eq(chunks, try_from(o).chunks))
    /\ UNCHANGED chunks

Next ==
    \/ FromStr
    \/ TryFrom
    \/ Bytes
    \/ IsValid
    \/ IsCritical
    \/ IsPublic
    \/ IsReservedBitValid
    \/ IsSafeToCopy
    \/ ToString
    \/ Eq

Spec == Init /\ [][Next]_vars

----------------------------------------------------------------------------
(* Properties *)

\* 65-90 or 97-122
AsciiAlphabetic(b) == (65 <= b /\ b <= 90) \/ (97 <= b /\ b <= 122)

Uppercase(b) == 65 <= b /\ b <= 90

Lowercase(b) == 97 <= b /\ b <= 122

\* the number of bytes a character takes in a text
CharWidth(c) == IF c < 128 THEN 1 ELSE IF c < 2048 THEN 2 ELSE IF c < 65536 THEN 3 ELSE 4

RECURSIVE ByteLength(_)
ByteLength(s) == IF s = <<>> THEN 0 ELSE CharWidth(Head(s)) + ByteLength(Tail(s))

\* bit 5 (0x20) of a byte, read off its remainder modulo 64
CaseBit(b) == IF b % 64 >= 32 THEN 1 ELSE 0

FromText == input.kind = "str"

FromRaw == input.kind = "bytes"

\* C1: from_str returns Ok exactly when the text is 4 bytes long and each of
\* the 4 bytes is an ASCII letter; on Ok the tag's bytes(), and its field, are
\* the bytes of the text, in order and with their case.
C1_FromStrOk ==
    FromText =>
        LET b == as_bytes(input.s) IN
        /\ result.tag = "Ok" <=>
               (Len(b) = 4 /\ \A i \in 1..4 : AsciiAlphabetic(b[i]))
        /\ result.tag = "Ok" =>
               /\ result.chunks = b
               /\ chunks = b
               /\ ret.op = "bytes" => ret.val = b

C1_Witness ==
    /\ FromText
    /\ result.tag = "Ok"
    /\ ret.op = "bytes"
    /\ ret.val = <<90, 97, 97, 90>>

\* C2: a text whose byte length n is not 4 is refused with InvalidLength(n),
\* also when it holds bytes that are not letters: never InvalidCharacter.
C2_InvalidLength ==
    (FromText /\ ByteLength(input.s) # 4) =>
        /\ result.tag = "Err"
        /\ result.kind = "InvalidLength"
        /\ result.val = ByteLength(input.s)
        /\ ~Constructed

C2_Witness ==
    /\ FromText
    /\ result.kind = "InvalidLength"
    /\ result.val = 6
    /\ \E i \in 1..Len(input.s) : ~AsciiAlphabetic(input.s[i])

\* C3: a text of exactly 4 bytes with a byte that is not an ASCII letter is
\* refused with InvalidCharacter(b), b the first such byte of the text.
C3_InvalidCharacter ==
    FromText =>
        LET b == as_bytes(input.s) IN
        (Len(b) = 4 /\ \E i \in 1..4 : ~AsciiAlphabetic(b[i])) =>
            /\ result.tag = "Err"
            /\ result.kind = "InvalidCharacter"
            /\ \E i \in 1..4 :
                /\ ~AsciiAlphabetic(b[i])
                /\ \A j \in 1..(i - 1) : AsciiAlphabetic(b[j])
                /\ result.val = b[i]
            /\ ~Constructed

\* "Z" then U+00E9 then "[": the first offending byte is 0xC3, the last is '['
C3_Witness ==
    /\ FromText
    /\ input.s = <<90, 233, 91>>
    /\ result.kind = "InvalidCharacter"
    /\ result.val = 195

\* C4: try_from on a 4-byte array always returns Ok, whatever the bytes, and
\* the tag's bytes() is the array.
C4_TryFromBytes ==
    FromRaw =>
        /\ result.tag = "Ok"
        /\ result.chunks = input.s
        /\ chunks = input.s
        /\ ret.op = "bytes" => ret.val = input.s

C4_Witness ==
    /\ FromRaw
    /\ ret.op = "bytes"
    /\ ret.val = <<0, 195, 123, 65>>

\* C5: is_valid() is true exactly when the 4 bytes are ASCII letters and bit 5
\* of byte 2 is 0, for a tag from either constructor.
C5_IsValid ==
    ret.op = "is_valid" =>
        /\ ret.val <=> (/\ \A i \in 1..4 : AsciiAlphabetic(chunks[i])
                        /\ CaseBit(chunks[3]) = 0)
        /\ \A v \in 0..255 :
              LET t == [chunks EXCEPT ![3] = v]
              IN  is_valid(t) <=> (/\ \A i \in 1..4 : AsciiAlphabetic(t[i])
                                   /\ CaseBit(v) = 0)

\* a tag with a byte that is no letter and its reserved bit 0 is not valid
C5_Witness ==
    /\ FromRaw
    /\ ret.op = "is_valid"
    /\ ret.val = FALSE
    /\ CaseBit(chunks[3]) = 0
    /\ \E i \in 1..4 : ~AsciiAlphabetic(chunks[i])

C7_Equality ==
    ret.op = "eq" =>
        LET a == chunks
            b == try_from(ret.arg).chunks
        IN  /\ ret.val <=> (\A i \in 1..4 : a[i] = b[i])
            /\ eq(a, a)
            /\ eq(b, a) <=> ret.val
            /\ \A c \in Others(b) : (ret.val /\ eq(b, c)) => eq(a, c)
            /\ (FromText /\ ret.arg = as_bytes(input.s)) => ret.val

\* a tag built from a text compared with the tag built from its bytes
C7_Witness ==
    /\ FromText
    /\ ret.op = "eq"
    /\ ret.arg = as_bytes(input.s)
    /\ ret.val = TRUE

\* C8: formatting succeeds for any 4 bytes; a tag of 4 ASCII bytes is
\* rendered as those 4 characters, so a tag built from a text s is rendered as
\* s, and from_str of the rendered text gives the tag back.
C8_Display ==
    ret.op = "to_string" =>
        /\ ret.val.ok
        /\ (\A i \in 1..4 : chunks[i] < 128) => ret.val.text = chunks
        /\ FromText =>
            /\ ret.val.text = input.s
            /\ from_str(ret.val.text) = Ok(chunks)

C8_Witness ==
    /\ FromText
    /\ ret.op = "to_string"
    /\ ret.val.text = <<90, 97, 90, 97>>

\* C9: no query changes the tag's bytes, and a query made again on the tag
\* returns what it returned the first time.
C9_Immutable ==
    [][Constructed =>
        /\ chunks' = chunks
        /\ (ret'.op = first'.op /\ ret'.arg = first'.arg) => ret'.val = first'.val]_vars

\* the first query made again, after at least one other call
C9_Witness ==
    /\ calls >= 3
    /\ first.op = "is_valid"
    /\ ret.op = "is_valid"
    /\ ret.val = first.val
    /\ chunks = <<65, 65, 122, 65>>

====
